---- MODULE Spec2Model ----
(***************************************************************************)
(* A model of the IOC container of the dependency-injection library:       *)
(* the registry of implementations, the singleton instances, the scope     *)
(* table and the dependency references, with one action per public static  *)
(* method of IOCContainer.                                                 *)
(***************************************************************************)
EXTENDS Integers, Sequences, FiniteSets, TLC

(***************************************************************************)
(* Bounds of the model.                                                    *)
(***************************************************************************)
\* number of calls made on the container in one behaviour
MaxCalls == 3
\* length of the iterable handed to cleanScope
MaxScopeList == 2

(***************************************************************************)
(* The inputs the calls are drawn from.                                    *)
(***************************************************************************)
Tokens == {"A", "B", "C"}
DependencyInjectionType == {"Singleton", "Scoped", "Transient"}
Constructors == {"X", "Y"}
Callbacks == {"rA", "rB"}

(***************************************************************************)
(* JavaScript values.  Objects are told apart by their identity (id).      *)
(***************************************************************************)
NullV == [t |-> "null"]
UndefinedV == [t |-> "undefined"]
ObjV(i) == [t |-> "obj", id |-> i]
\* a value owned by the caller, not created by the container
ExtV(i) == [t |-> "ext", id |-> i]
\* the prototype of the class called name, what @Inject passes as origin
ProtoV(name) == [t |-> "proto", name |-> name]
StrV(s) == [t |-> "string", s |-> s]
FnV(name) == [t |-> "function", name |-> name]
ErrorV(name, message) == [t |-> "error", name |-> name, message |-> message]

\* a call of caller-supplied code: a constructor or a scope callback
Invocation(fn, arg, result) == [fn |-> fn, arg |-> arg, result |-> result]

Return(v) == [kind |-> "return", value |-> v]
Throw(v) == [kind |-> "throw", value |-> v]

\* an Error object: its message is a template string, kept as its parts
DependencyInjectionError(message) == ErrorV("DependencyInjectionError", message)
TypeError(message) == ErrorV("TypeError", message)

Handles == {ExtV(1), ExtV(2)}
Origins == {ProtoV(n) : n \in Tokens} \cup {NullV}
\* what a constructor may throw
Thrown == {ErrorV("Error", <<"boom">>), NullV}
\* what a scope callback may do
CallbackOutcomes == {Return(NullV), Return(ExtV(3)), Throw(ErrorV("Error", <<"scope">>))}

(***************************************************************************)
(* The ECMAScript Map: entries in insertion order, keys compared by        *)
(* identity.                                                               *)
(***************************************************************************)
MapHas(m, k) == \E i \in 1..Len(m) : m[i].key = k

MapGet(m, k) ==
  IF MapHas(m, k) THEN m[CHOOSE i \in 1..Len(m) : m[i].key = k].value ELSE UndefinedV

MapSet(m, k, v) ==
  IF MapHas(m, k)
  THEN [i \in 1..Len(m) |-> IF m[i].key = k THEN [key |-> k, value |-> v] ELSE m[i]]
  ELSE Append(m, [key |-> k, value |-> v])

MapDelete(m, k) ==
  LET Keep(e) == e.key # k IN SelectSeq(m, Keep)

MapKeys(m) == {m[i].key : i \in 1..Len(m)}

(***************************************************************************)
(* State.                                                                  *)
(***************************************************************************)
VARIABLES
  implementations,       \* Map token -> Dependency
  instances,             \* Map constructor -> the singleton instance
  scopes,                \* Map instance -> resolve callback
  dependencyReferences,  \* Map token -> origin
  nextId,                \* identity of the next object a constructor creates
  calls,                 \* number of calls made so far
  last,                  \* the last call: its arguments and its outcome
  firstResolved,         \* history: token -> first instance resolve returned
  resolved,              \* history: every instance resolve has returned
  scopeOwner             \* history: instance -> callback last registered

vars == <<implementations, instances, scopes, dependencyReferences, nextId,
          calls, last, firstResolved, resolved, scopeOwner>>

container == <<implementations, instances, scopes, dependencyReferences>>

NoCall ==
  [op |-> "none", token |-> "", injectionType |-> "", implementation |-> "",
   instance |-> NullV, callback |-> "", scopeList |-> <<>>, origin |-> NullV,
   outcome |-> Return(UndefinedV), invoked |-> <<>>, deleted |-> <<>>,
   repeated |-> FALSE, resolveCalled |-> FALSE, registered |-> <<>>,
   decorated |-> NullV, trace |-> <<>>, stack |-> <<>>]

Init ==
  /\ implementations = <<>>
  /\ instances = <<>>
  /\ scopes = <<>>
  /\ dependencyReferences = <<>>
  /\ nextId = 1
  /\ calls = 0
  /\ last = NoCall
  /\ firstResolved = [t \in Tokens |-> NullV]
  /\ resolved = {}
  /\ scopeOwner = [h \in Handles |-> ""]

(***************************************************************************)
(* register                                                                *)
(***************************************************************************)
AlreadyRegistered(token) ==
  Throw(DependencyInjectionError(
    <<"There already is a class named ", token, " registered.">>))

\* register without the implementations.has test: the later class wins
registerOverwrites(impls, token, injectionType, implementation) ==
  [outcome |-> Return(UndefinedV),
   implementations |-> MapSet(impls, token,
                         [injectionType |-> injectionType,
                          implementation |-> implementation])]

\* register that refuses the second registration and drops the first
registerDropsOnDuplicate(impls, token, injectionType, implementation) ==
  IF MapHas(impls, token)
  THEN [outcome |-> AlreadyRegistered(token),
        implementations |-> MapDelete(impls, token)]
  ELSE [outcome |-> Return(UndefinedV),
        implementations |-> MapSet(impls, token,
                              [injectionType |-> injectionType,
                               implementation |-> implementation])]

register(impls, token, injectionType, implementation) ==
  IF MapHas(impls, token)
  THEN [outcome |-> AlreadyRegistered(token), implementations |-> impls]
  ELSE [outcome |-> Return(UndefinedV),
        implementations |-> MapSet(impls, token,
                              [injectionType |-> injectionType,
                               implementation |-> implementation])]

Register ==
  /\ calls < MaxCalls
  /\ \E token \in Tokens, injectionType \in DependencyInjectionType,
        implementation \in Constructors :
       LET r == register(implementations, token, injectionType, implementation) IN
       /\ implementations' = r.implementations
       /\ last' = [NoCall EXCEPT !.op = "register", !.token = token,
                                 !.injectionType = injectionType,
                                 !.implementation = implementation,
                                 !.outcome = r.outcome]
  /\ calls' = calls + 1
  /\ UNCHANGED <<instances, scopes, dependencyReferences, nextId,
                 firstResolved, resolved, scopeOwner>>

(***************************************************************************)
(* resolve.  created is what `new injection.implementation()` does when    *)
(* it is evaluated: it returns a new object or it throws.                  *)
(***************************************************************************)
ConstructorNotFound(token) ==
  Throw(DependencyInjectionError(
    <<"Class constructor for ", token,
      " not found. Did you forget to add the @Singleton decorator to the class?">>))

\* the catch block: error.message is read from whatever was thrown
CreationFailed(token, error) ==
  IF error \in {NullV, UndefinedV}
  THEN Throw(TypeError(<<"Cannot read properties of ", error.t,
                         " (reading 'message')">>))
  ELSE Throw(DependencyInjectionError(
         <<"Failed to create an instance of ", token, ". ">> \o error.message))

\* resolve without the instances.has test: every call constructs
resolveAlwaysCreates(impls, insts, token, created) ==
  LET injection == MapGet(impls, token) IN
  IF injection = UndefinedV
  THEN [outcome |-> ConstructorNotFound(token), instances |-> insts, invoked |-> <<>>]
  ELSE IF injection.injectionType # "Singleton"
  THEN [outcome |-> created, instances |-> insts,
        invoked |-> <<Invocation(injection.implementation, "", created)>>]
  ELSE IF created.kind = "throw"
  THEN [outcome |-> CreationFailed(token, created.value), instances |-> insts,
        invoked |-> <<Invocation(injection.implementation, "", created)>>]
  ELSE [outcome |-> created,
        instances |-> MapSet(insts, injection.implementation, created.value),
        invoked |-> <<Invocation(injection.implementation, "", created)>>]

\* resolve that keeps Scoped instances in the instances map as well
resolveScopedCached(impls, insts, token, created) ==
  LET injection == MapGet(impls, token) IN
  IF injection = UndefinedV
  THEN [outcome |-> ConstructorNotFound(token), instances |-> insts, invoked |-> <<>>]
  ELSE IF injection.injectionType = "Transient"
  THEN [outcome |-> created, instances |-> insts,
        invoked |-> <<Invocation(injection.implementation, "", created)>>]
  ELSE IF ~MapHas(insts, injection.implementation)
  THEN IF created.kind = "throw"
       THEN [outcome |-> CreationFailed(token, created.value), instances |-> insts,
             invoked |-> <<Invocation(injection.implementation, "", created)>>]
       ELSE [outcome |-> created,
             instances |-> MapSet(insts, injection.implementation, created.value),
             invoked |-> <<Invocation(injection.implementation, "", created)>>]
  ELSE [outcome |-> Return(MapGet(insts, injection.implementation)),
        instances |-> insts, invoked |-> <<>>]

\* resolve without the test of the registration: injection.injectionType is
\* read from undefined
resolveUnchecked(impls, insts, token, created) ==
  LET injection == MapGet(impls, token) IN
  IF injection = UndefinedV
  THEN [outcome |-> Throw(TypeError(<<"Cannot read properties of undefined",
                                      " (reading 'injectionType')">>)),
        instances |-> insts, invoked |-> <<>>]
  ELSE IF injection.injectionType # "Singleton"
  THEN [outcome |-> created, instances |-> insts,
        invoked |-> <<Invocation(injection.implementation, "", created)>>]
  ELSE IF ~MapHas(insts, injection.implementation)
  THEN IF created.kind = "throw"
       THEN [outcome |-> CreationFailed(token, created.value), instances |-> insts,
             invoked |-> <<Invocation(injection.implementation, "", created)>>]
       ELSE [outcome |-> created,
             instances |-> MapSet(insts, injection.implementation, created.value),
             invoked |-> <<Invocation(injection.implementation, "", created)>>]
  ELSE [outcome |-> Return(MapGet(insts, injection.implementation)),
        instances |-> insts, invoked |-> <<>>]

\* resolve with the instances kept under the token, not the constructor
resolveByToken(impls, insts, token, created) ==
  LET injection == MapGet(impls, token) IN
  IF injection = UndefinedV
  THEN [outcome |-> ConstructorNotFound(token), instances |-> insts, invoked |-> <<>>]
  ELSE IF injection.injectionType # "Singleton"
  THEN [outcome |-> created, instances |-> insts,
        invoked |-> <<Invocation(injection.implementation, "", created)>>]
  ELSE IF ~MapHas(insts, token)
  THEN IF created.kind = "throw"
       THEN [outcome |-> CreationFailed(token, created.value), instances |-> insts,
             invoked |-> <<Invocation(injection.implementation, "", created)>>]
       ELSE [outcome |-> created,
             instances |-> MapSet(insts, token, created.value),
             invoked |-> <<Invocation(injection.implementation, "", created)>>]
  ELSE [outcome |-> Return(MapGet(insts, token)),
        instances |-> insts, invoked |-> <<>>]

\* resolve without the instances.set: the singleton is built and returned
\* but never kept
resolveNoStore(impls, insts, token, created) ==
  LET injection == MapGet(impls, token) IN
  IF injection = UndefinedV
  THEN [outcome |-> ConstructorNotFound(token), instances |-> insts, invoked |-> <<>>]
  ELSE IF injection.injectionType # "Singleton"
  THEN [outcome |-> created, instances |-> insts,
        invoked |-> <<Invocation(injection.implementation, "", created)>>]
  ELSE IF ~MapHas(insts, injection.implementation)
  THEN [outcome |-> IF created.kind = "throw"
                    THEN CreationFailed(token, created.value) ELSE created,
        instances |-> insts,
        invoked |-> <<Invocation(injection.implementation, "", created)>>]
  ELSE [outcome |-> Return(MapGet(insts, injection.implementation)),
        instances |-> insts, invoked |-> <<>>]

resolve(impls, insts, token, created) ==
  LET injection == MapGet(impls, token) IN
  IF injection = UndefinedV
  THEN [outcome |-> ConstructorNotFound(token), instances |-> insts, invoked |-> <<>>]
  ELSE IF injection.injectionType # "Singleton"
  THEN [outcome |-> created, instances |-> insts,
        invoked |-> <<Invocation(injection.implementation, "", created)>>]
  ELSE IF ~MapHas(insts, injection.implementation)
  THEN IF created.kind = "throw"
       THEN [outcome |-> CreationFailed(token, created.value), instances |-> insts,
             invoked |-> <<Invocation(injection.implementation, "", created)>>]
       ELSE LET set == MapSet(insts, injection.implementation, created.value) IN
            [outcome |-> Return(MapGet(set, injection.implementation)),
             instances |-> set,
             invoked |-> <<Invocation(injection.implementation, "", created)>>]
  ELSE [outcome |-> Return(MapGet(insts, injection.implementation)),
        instances |-> insts, invoked |-> <<>>]

Resolve ==
  /\ calls < MaxCalls
  /\ \E token \in Tokens, created \in {Return(ObjV(nextId))} \cup {Throw(e) : e \in Thrown} :
       LET r == resolve(implementations, instances, token, created) IN
       /\ instances' = r.instances
       /\ nextId' = IF r.invoked # <<>> /\ created.kind = "return"
                    THEN nextId + 1 ELSE nextId
       /\ last' = [NoCall EXCEPT !.op = "resolve", !.token = token,
                                 !.outcome = r.outcome, !.invoked = r.invoked]
       /\ firstResolved' =
            IF r.outcome.kind = "return" /\ firstResolved[token] = NullV
            THEN [firstResolved EXCEPT ![token] = r.outcome.value]
            ELSE firstResolved
       /\ resolved' = IF r.outcome.kind = "return"
                      THEN resolved \cup {r.outcome.value} ELSE resolved
  /\ calls' = calls + 1
  /\ UNCHANGED <<implementations, scopes, dependencyReferences, scopeOwner>>

(***************************************************************************)
(* getInjectionType                                                        *)
(***************************************************************************)
\* getInjectionType without the `?? null`
getInjectionTypeUndefined(impls, token) ==
  LET dependency == MapGet(impls, token) IN
  IF dependency = UndefinedV THEN Return(UndefinedV)
  ELSE Return(StrV(dependency.injectionType))

getInjectionType(impls, token) ==
  LET dependency == MapGet(impls, token) IN
  IF dependency = UndefinedV THEN Return(NullV)
  ELSE Return(StrV(dependency.injectionType))

GetInjectionType ==
  /\ calls < MaxCalls
  /\ \E token \in Tokens :
       last' = [NoCall EXCEPT !.op = "getInjectionType", !.token = token,
                              !.outcome = getInjectionType(implementations, token)]
  /\ calls' = calls + 1
  /\ UNCHANGED <<container, nextId, firstResolved, resolved, scopeOwner>>

(***************************************************************************)
(* registerScope, resolveScope, cleanScope                                 *)
(***************************************************************************)
\* registerScope that keeps the callback an instance already has
registerScopeKeepsFirst(scps, instance, resolveFn) ==
  IF MapHas(scps, instance) THEN scps ELSE MapSet(scps, instance, resolveFn)

registerScope(scps, instance, resolveFn) == MapSet(scps, instance, resolveFn)

RegisterScope ==
  /\ calls < MaxCalls
  /\ \E instance \in Handles, callback \in Callbacks :
       /\ scopes' = registerScope(scopes, instance, FnV(callback))
       /\ scopeOwner' = [scopeOwner EXCEPT ![instance] = callback]
       /\ last' = [NoCall EXCEPT !.op = "registerScope", !.instance = instance,
                                 !.callback = callback]
  /\ calls' = calls + 1
  /\ UNCHANGED <<implementations, instances, dependencyReferences, nextId,
                 firstResolved, resolved>>

\* result is what the callback does when it is called
resolveScope(scps, instance, dependency, result) ==
  LET resolveFn == MapGet(scps, instance) IN
  IF resolveFn \notin {UndefinedV, NullV}
  THEN [outcome |-> result, invoked |-> <<Invocation(resolveFn.name, dependency, result)>>]
  ELSE [outcome |-> Return(NullV), invoked |-> <<>>]

ResolveScope ==
  /\ calls < MaxCalls
  /\ \E instance \in Handles, dependency \in Tokens, result \in CallbackOutcomes :
       LET r == resolveScope(scopes, instance, dependency, result) IN
       last' = [NoCall EXCEPT !.op = "resolveScope", !.instance = instance,
                              !.token = dependency, !.outcome = r.outcome,
                              !.invoked = r.invoked]
  /\ calls' = calls + 1
  /\ UNCHANGED <<container, nextId, firstResolved, resolved, scopeOwner>>

\* cleanScope that leaves the loop after the first scope
cleanScopeFirstOnly(scps, list) ==
  IF list = <<>>
  THEN [outcome |-> Return(UndefinedV), scopes |-> scps, deleted |-> <<>>]
  ELSE [outcome |-> Return(UndefinedV), scopes |-> MapDelete(scps, Head(list)),
        deleted |-> <<MapHas(scps, Head(list))>>]

RECURSIVE cleanScopeStrict(_, _)
\* cleanScope that throws for a scope that is not in the map
cleanScopeStrict(scps, list) ==
  IF list = <<>>
  THEN [outcome |-> Return(UndefinedV), scopes |-> scps, deleted |-> <<>>]
  ELSE IF ~MapHas(scps, Head(list))
  THEN [outcome |-> Throw(DependencyInjectionError(<<"The scope is not registered.">>)),
        scopes |-> scps, deleted |-> <<FALSE>>]
  ELSE LET rest == cleanScopeStrict(MapDelete(scps, Head(list)), Tail(list)) IN
       [outcome |-> rest.outcome, scopes |-> rest.scopes,
        deleted |-> <<TRUE>> \o rest.deleted]

RECURSIVE cleanScope(_, _)
\* deleted lists what each Map.delete returned
cleanScope(scps, list) ==
  IF list = <<>>
  THEN [outcome |-> Return(UndefinedV), scopes |-> scps, deleted |-> <<>>]
  ELSE LET rest == cleanScope(MapDelete(scps, Head(list)), Tail(list)) IN
       [outcome |-> rest.outcome, scopes |-> rest.scopes,
        deleted |-> <<MapHas(scps, Head(list))>> \o rest.deleted]

ScopeLists == UNION {[1..n -> Handles] : n \in 0..MaxScopeList}

ListedIn(list) == {list[i] : i \in 1..Len(list)}

CleanScope ==
  /\ calls < MaxCalls
  /\ \E list \in ScopeLists :
       LET r == cleanScope(scopes, list) IN
       /\ scopes' = r.scopes
       /\ scopeOwner' = [h \in Handles |->
                           IF h \in ListedIn(list) THEN "" ELSE scopeOwner[h]]
       /\ last' = [NoCall EXCEPT !.op = "cleanScope", !.scopeList = list,
                                 !.outcome = r.outcome, !.deleted = r.deleted,
                                 !.repeated = (last.op = "cleanScope"
                                               /\ last.scopeList = list)]
  /\ calls' = calls + 1
  /\ UNCHANGED <<implementations, instances, dependencyReferences, nextId,
                 firstResolved, resolved>>

(***************************************************************************)
(* addDependencyReference, testDependencyReferences                        *)
(***************************************************************************)
\* addDependencyReference that keeps every origin it was given
addDependencyReferenceAppends(refs, token, origin) ==
  Append(refs, [key |-> token, value |-> origin])

addDependencyReference(refs, token, origin) == MapSet(refs, token, origin)

AddDependencyReference ==
  /\ calls < MaxCalls
  /\ \E token \in Tokens, origin \in Origins :
       /\ dependencyReferences' =
            addDependencyReference(dependencyReferences, token, origin)
       /\ last' = [NoCall EXCEPT !.op = "addDependencyReference",
                                 !.token = token, !.origin = origin,
                                 !.repeated = MapHas(dependencyReferences, token)]
  /\ calls' = calls + 1
  /\ UNCHANGED <<implementations, instances, scopes, nextId,
                 firstResolved, resolved, scopeOwner>>

\* origin.constructor.name: reading a property of null or undefined throws
ConstructorName(origin) ==
  IF origin \in {NullV, UndefinedV}
  THEN Throw(TypeError(<<"Cannot read properties of ", origin.t,
                         " (reading 'constructor')">>))
  ELSE Return(StrV(origin.name))

NotRegisteredMessage(name, token) ==
  <<name, ": The dependency ", token, " is not registered">>

NonScopedMessage(name, token) ==
  <<name, ": The scoped dependency ", token,
    " cannot be resolved from a non-scoped class">>

TestResult(valid, errors) == [t |-> "result", valid |-> valid, errors |-> errors]

RECURSIVE testLoop(_, _, _, _, _)
\* the for loop over the references, from entry i on
testLoop(impls, refs, i, valid, errors) ==
  IF i > Len(refs)
  THEN Return(TestResult(valid, errors))
  ELSE LET token == refs[i].key
           origin == refs[i].value
           dependency == MapGet(impls, token)
           name == ConstructorName(origin)
       IN IF dependency = UndefinedV
          THEN IF name.kind = "throw" THEN name
               ELSE testLoop(impls, refs, i + 1, FALSE,
                             Append(errors, NotRegisteredMessage(name.value.s, token)))
          ELSE IF dependency.injectionType = "Scoped"
          THEN IF name.kind = "throw" THEN name
               ELSE LET originDependency == MapGet(impls, name.value.s) IN
                    IF originDependency # UndefinedV
                       /\ originDependency.injectionType # "Scoped"
                    THEN testLoop(impls, refs, i + 1, FALSE,
                                  Append(errors, NonScopedMessage(name.value.s, token)))
                    ELSE testLoop(impls, refs, i + 1, valid, errors)
          ELSE testLoop(impls, refs, i + 1, valid, errors)

testDependencyReferences(impls, refs) == testLoop(impls, refs, 1, TRUE, <<>>)

\* a test of the references that resolves the first referenced token to
\* see whether it can be built
TestDependencyReferencesResolving ==
  /\ calls < MaxCalls
  /\ LET token == IF dependencyReferences = <<>> THEN ""
                  ELSE dependencyReferences[1].key
         r == resolve(implementations, instances, token, Return(ObjV(nextId)))
     IN /\ instances' = r.instances
        /\ nextId' = IF r.invoked # <<>> THEN nextId + 1 ELSE nextId
        /\ last' = [NoCall EXCEPT !.op = "testDependencyReferences",
                                  !.outcome = testDependencyReferences(
                                                implementations, dependencyReferences)]
  /\ calls' = calls + 1
  /\ UNCHANGED <<implementations, scopes, dependencyReferences,
                 firstResolved, resolved, scopeOwner>>

TestDependencyReferences ==
  /\ calls < MaxCalls
  /\ last' = [NoCall EXCEPT !.op = "testDependencyReferences",
                            !.outcome = testDependencyReferences(
                                          implementations, dependencyReferences)]
  /\ calls' = calls + 1
  /\ UNCHANGED <<container, nextId, firstResolved, resolved, scopeOwner>>

(***************************************************************************)
(* The container under any sequence of calls.                              *)
(***************************************************************************)
Next ==
  \/ Register
  \/ Resolve
  \/ GetInjectionType
  \/ RegisterScope
  \/ ResolveScope
  \/ CleanScope
  \/ AddDependencyReference
  \/ TestDependencyReferences

Spec == Init /\ [][Next]_vars

TypeOK ==
  /\ calls \in 0..MaxCalls
  /\ nextId \in 1..(MaxCalls + 1)
  /\ Len(implementations) <= Cardinality(Tokens)

(***************************************************************************)
(* What the registry holds for a token.                                    *)
(***************************************************************************)
Registered(token) == MapHas(implementations, token)
TypeOf(token) == MapGet(implementations, token).injectionType
ConstructorOf(token) == MapGet(implementations, token).implementation

(***************************************************************************)
(* Properties of register, resolve and getInjectionType.                   *)
(***************************************************************************)

\* C1: every successful resolve of a token registered Singleton returns
\* the very instance the first successful resolve of that token returned.
SingletonIdentity ==
  (/\ last.op = "resolve"
   /\ last.outcome.kind = "return"
   /\ Registered(last.token)
   /\ TypeOf(last.token) = "Singleton")
  => last.outcome.value = firstResolved[last.token]

\* a Singleton token, the only one registered, is resolved again and served
\* from the instances map
SingletonResolvedAgain ==
  /\ last.op = "resolve"
  /\ last.outcome.kind = "return"
  /\ Len(implementations) = 1
  /\ TypeOf(last.token) = "Singleton"
  /\ last.invoked = <<>>

DuplicateRejection ==
  [][(last'.op = "register" /\ Registered(last'.token))
     => (/\ last'.outcome = AlreadyRegistered(last'.token)
         /\ implementations' = implementations
         /\ MapGet(implementations', last'.token) = MapGet(implementations, last'.token)
         /\ resolve(implementations', instances', last'.token,
                    Return(ObjV(nextId'))).outcome.kind = "return")]_vars

\* a second registration with another lifecycle and constructor was refused
DuplicateRefused ==
  /\ last.op = "register"
  /\ last.outcome.kind = "throw"
  /\ TypeOf(last.token) # last.injectionType
  /\ ConstructorOf(last.token) # last.implementation

\* C4: resolve of a token that is not registered throws the "not found"
\* DependencyInjectionError naming the token, calls no constructor and
\* leaves the four maps as they were.
UnregisteredResolve ==
  [][(last'.op = "resolve" /\ ~Registered(last'.token))
     => (/\ last'.outcome = ConstructorNotFound(last'.token)
         /\ last'.outcome.value.name = "DependencyInjectionError"
         /\ last'.outcome.value.message[2] = last'.token
         /\ last'.invoked = <<>>
         /\ nextId' = nextId
         /\ UNCHANGED container)]_vars

\* an unregistered token was resolved while the registry and the scope
\* table were not empty
UnregisteredResolved ==
  /\ last.op = "resolve"
  /\ ~Registered(last.token)
  /\ last.outcome.kind = "throw"
  /\ implementations # <<>>
  /\ scopes # <<>>

\* C5: getInjectionType returns, never throws, changes nothing, and its
\* value is the injection type of the registration or null without one.
GetInjectionTypePure ==
  [][last'.op = "getInjectionType"
     => (/\ last'.outcome.kind = "return"
         /\ last'.outcome.value = IF Registered(last'.token)
                                  THEN StrV(TypeOf(last'.token)) ELSE NullV
         /\ nextId' = nextId
         /\ UNCHANGED container)]_vars

\* null was returned for one token while another one was registered Scoped
\* and a reference was recorded
NullForUnregistered ==
  /\ last.op = "getInjectionType"
  /\ last.outcome.value = NullV
  /\ \E t \in Tokens : Registered(t) /\ TypeOf(t) = "Scoped"
  /\ dependencyReferences # <<>>

(***************************************************************************)
(* Properties of the scope table.                                          *)
(***************************************************************************)

\* C6: the scope table has at most one callback for an instance;
\* resolveScope(A, X) calls the callback last registered for A, and no
\* other, with X and hands back what it returns or throws; without a
\* callback for A it calls nothing and returns null.
ScopeIsolation ==
  /\ \A i, j \in 1..Len(scopes) : scopes[i].key = scopes[j].key => i = j
  /\ last.op = "resolveScope"
       => IF scopeOwner[last.instance] # ""
          THEN /\ Len(last.invoked) = 1
               /\ last.invoked[1].fn = scopeOwner[last.instance]
               /\ last.invoked[1].arg = last.token
               /\ last.outcome = last.invoked[1].result
          ELSE /\ last.invoked = <<>>
               /\ last.outcome = Return(NullV)

\* two instances have different callbacks and resolveScope called one
ScopeCallbackInvoked ==
  /\ last.op = "resolveScope"
  /\ Len(last.invoked) = 1
  /\ Len(scopes) = 2
  /\ scopes[1].value # scopes[2].value

\* C7: after cleanScope no listed instance is in the scope table, so
\* resolveScope returns null for it; the entries of the instances that are
\* not listed, the registry, the instances and the references are as
\* before.
CleanScopeFrame ==
  [][last'.op = "cleanScope"
     => (/\ \A h \in ListedIn(last'.scopeList) :
              /\ ~MapHas(scopes', h)
              /\ \A X \in Tokens, result \in CallbackOutcomes :
                   resolveScope(scopes', h, X, result).outcome = Return(NullV)
         /\ \A h \in Handles \ ListedIn(last'.scopeList) :
              MapGet(scopes', h) = MapGet(scopes, h)
         /\ MapKeys(scopes') = MapKeys(scopes) \ ListedIn(last'.scopeList)
         /\ UNCHANGED <<implementations, instances, dependencyReferences>>)]_vars

\* cleanScope removed the callback of the listed instance and left the
\* callback of the other one
ScopeCleaned ==
  /\ last.op = "cleanScope"
  /\ TRUE \in ListedIn(last.deleted)
  /\ scopes # <<>>

\* C8: cleanScope returns, whatever the scopes it is given, and a second
\* cleanScope with the same scopes changes nothing.
CleanScopeIdempotent ==
  [][last'.op = "cleanScope"
     => (/\ last'.outcome = Return(UndefinedV)
         /\ cleanScope(scopes', last'.scopeList).scopes = scopes'
         /\ (last'.repeated => UNCHANGED container))]_vars

\* the same scopes were cleaned twice in a row, with another callback left
CleanedTwice ==
  /\ last.op = "cleanScope"
  /\ last.repeated
  /\ last.scopeList # <<>>
  /\ FALSE \in ListedIn(last.deleted)
  /\ scopes # <<>>

(***************************************************************************)
(* The validator after registration has completed: the registry is one     *)
(* that register calls have built, and the calls are those of @Inject and  *)
(* of the test of the references.                                          *)
(***************************************************************************)
Registrations ==
  {[key |-> token,
    value |-> [injectionType |-> injectionType, implementation |-> "X"]] :
     token \in Tokens, injectionType \in DependencyInjectionType}

Registries ==
  {m \in UNION {[1..n -> Registrations] : n \in 0..Cardinality(Tokens)} :
     \A i, j \in 1..Len(m) : m[i].key = m[j].key => i = j}

InitValidator ==
  /\ implementations \in Registries
  /\ instances = <<>>
  /\ scopes = <<>>
  /\ dependencyReferences = <<>>
  /\ nextId = 1
  /\ calls = 0
  /\ last = NoCall
  /\ firstResolved = [t \in Tokens |-> NullV]
  /\ resolved = {}
  /\ scopeOwner = [h \in Handles |-> ""]

NextValidator ==
  \/ AddDependencyReference
  \/ TestDependencyReferences

SpecValidator == InitValidator /\ [][NextValidator]_vars

(***************************************************************************)
(* Properties of testDependencyReferences.                                 *)
(***************************************************************************)
References == {dependencyReferences[i] : i \in 1..Len(dependencyReferences)}

ErrorsOf(result) == {result.errors[i] : i \in 1..Len(result.errors)}

\* C9: testDependencyReferences returns valid = false and an error naming
\* the token and the origin for every reference whose token is not
\* registered, and no "not registered" error for a registered token.
MissingDependencyReported ==
  last.op = "testDependencyReferences"
    => \A ref \in References :
         IF ~Registered(ref.key)
         THEN /\ last.outcome.kind = "return"
              /\ last.outcome.value.valid = FALSE
              /\ \E e \in ErrorsOf(last.outcome.value) :
                   /\ e[2] = ": The dependency "
                   /\ e[3] = ref.key
                   /\ ConstructorName(ref.value) = Return(StrV(e[1]))
         ELSE last.outcome.kind = "return"
                => \A e \in ErrorsOf(last.outcome.value) :
                     ~(e[2] = ": The dependency " /\ e[3] = ref.key)

\* whether the class of the origin is registered with a type other than
\* Scoped
NonScopedOrigin(origin) ==
  /\ ConstructorName(origin).kind = "return"
  /\ Registered(ConstructorName(origin).value.s)
  /\ TypeOf(ConstructorName(origin).value.s) # "Scoped"

\* C10: for a reference whose token is registered Scoped,
\* testDependencyReferences returns valid = false and the "non-scoped class"
\* error exactly when the class of the origin is registered with a type
\* other than Scoped; there is no such error for a token registered
\* Singleton or Transient.
ScopeCrossingReported ==
  last.op = "testDependencyReferences"
    => \A ref \in References :
         Registered(ref.key)
           => IF TypeOf(ref.key) = "Scoped"
              THEN NonScopedOrigin(ref.value)
                     <=> (/\ last.outcome.kind = "return"
                          /\ last.outcome.value.valid = FALSE
                          /\ \E e \in ErrorsOf(last.outcome.value) :
                               /\ e[2] = ": The scoped dependency "
                               /\ e[3] = ref.key
                               /\ ConstructorName(ref.value) = Return(StrV(e[1])))
              ELSE last.outcome.kind = "return"
                     => \A e \in ErrorsOf(last.outcome.value) :
                          ~(e[2] = ": The scoped dependency " /\ e[3] = ref.key)

\* C11: testDependencyReferences returns a {valid, errors} result and never
\* throws, whatever references were recorded.
TestNeverRaises ==
  last.op = "testDependencyReferences"
    => /\ last.outcome.kind = "return"
       /\ last.outcome.value.t = "result"

(***************************************************************************)
(* Properties of the construction of instances.                            *)
(***************************************************************************)

\* C12: when the constructor of a Singleton token without an instance
\* throws, resolve throws the "Failed to create" DependencyInjectionError
\* that names the token and carries the message of what was thrown, and the
\* instances map gets no entry.
SingletonCreationFailure ==
  (/\ last.op = "resolve"
   /\ Registered(last.token)
   /\ TypeOf(last.token) = "Singleton"
   /\ Len(last.invoked) = 1
   /\ last.invoked[1].result.kind = "throw")
  => /\ last.outcome.kind = "throw"
     /\ ~MapHas(instances, ConstructorOf(last.token))
     /\ last.outcome.value.name = "DependencyInjectionError"
     /\ last.outcome.value.message[1] = "Failed to create an instance of "
     /\ last.outcome.value.message[2] = last.token
     /\ (last.invoked[1].result.value.t = "error"
           => SubSeq(last.outcome.value.message, 4, Len(last.outcome.value.message))
                = last.invoked[1].result.value.message)

\* C14: register calls no constructor and the instances map is empty until
\* a resolve has returned; a resolve of a Singleton token calls the
\* constructor and keeps what it returns when the map has no instance of
\* it, and calls nothing once the map has one.
LazyOnce ==
  [][/\ (instances' # <<>> => resolved' # {})
     /\ (last'.op = "register"
           => /\ last'.invoked = <<>>
              /\ nextId' = nextId
              /\ instances' = instances)
     /\ ((/\ last'.op = "resolve"
          /\ Registered(last'.token)
          /\ TypeOf(last'.token) = "Singleton")
           => IF MapHas(instances, ConstructorOf(last'.token))
              THEN /\ last'.invoked = <<>>
                   /\ nextId' = nextId
                   /\ instances' = instances
              ELSE /\ Len(last'.invoked) = 1
                   /\ last'.invoked[1].fn = ConstructorOf(last'.token)
                   /\ (last'.invoked[1].result.kind = "return"
                         => MapGet(instances', ConstructorOf(last'.token))
                              = last'.invoked[1].result.value))]_vars

\* a Singleton was resolved without a constructor call, the only object
\* ever built being the one in the instances map
SingletonNotRebuilt ==
  /\ last.op = "resolve"
  /\ last.outcome.kind = "return"
  /\ last.invoked = <<>>
  /\ Len(instances) = 1
  /\ nextId = 2

\* C17: addDependencyReference and testDependencyReferences leave the
\* registry, the instances and the scope table as they were and call no
\* constructor, so resolve, getInjectionType and resolveScope answer after
\* them as they did before.
ReferencesDoNotAffectResolution ==
  [][last'.op \in {"addDependencyReference", "testDependencyReferences"}
     => (/\ UNCHANGED <<implementations, instances, scopes>>
         /\ nextId' = nextId
         /\ last'.invoked = <<>>
         /\ \A token \in Tokens :
              /\ getInjectionType(implementations', token)
                   = getInjectionType(implementations, token)
              /\ \A created \in {Return(ObjV(nextId))} \cup {Throw(e) : e \in Thrown} :
                   resolve(implementations', instances', token, created)
                     = resolve(implementations, instances, token, created)
              /\ \A instance \in Handles, result \in CallbackOutcomes :
                   resolveScope(scopes', instance, token, result)
                     = resolveScope(scopes, instance, token, result))]_vars

\* the references were tested while a class was registered and a reference
\* was recorded
ReferencesTested ==
  /\ last.op = "testDependencyReferences"
  /\ implementations # <<>>
  /\ dependencyReferences # <<>>

\* C20: whenever resolve throws, what it throws is a
\* DependencyInjectionError, the "not found" one or the "Failed to create"
\* one, whatever the injection type of the token.
ResolveFailsWithOwnError ==
  (last.op = "resolve" /\ last.outcome.kind = "throw")
    => /\ last.outcome.value.name = "DependencyInjectionError"
       /\ last.outcome.value.message[1]
            \in {"Class constructor for ", "Failed to create an instance of "}

(***************************************************************************)
(* Resolution from a registry in which several tokens may name the same    *)
(* constructor: the state after the decorated classes were imported, with  *)
(* the tokens in the order of Tokens (resolve never looks at the order of  *)
(* the implementations map).                                               *)
(***************************************************************************)
TokenOrder == <<"A", "B", "C">>

Dependencies ==
  {[injectionType |-> injectionType, implementation |-> implementation] :
     injectionType \in DependencyInjectionType, implementation \in Constructors}

RECURSIVE RegistryOf(_, _)
RegistryOf(choice, i) ==
  IF i > Len(TokenOrder) THEN <<>>
  ELSE IF choice[TokenOrder[i]] = UndefinedV THEN RegistryOf(choice, i + 1)
  ELSE <<[key |-> TokenOrder[i], value |-> choice[TokenOrder[i]]]>>
         \o RegistryOf(choice, i + 1)

AliasRegistries ==
  {RegistryOf(choice, 1) : choice \in [Tokens -> Dependencies \cup {UndefinedV}]}

InitResolution ==
  /\ implementations \in AliasRegistries
  /\ instances = <<>>
  /\ scopes = <<>>
  /\ dependencyReferences = <<>>
  /\ nextId = 1
  /\ calls = 0
  /\ last = NoCall
  /\ firstResolved = [t \in Tokens |-> NullV]
  /\ resolved = {}
  /\ scopeOwner = [h \in Handles |-> ""]

NextResolution == Resolve

SpecResolution == InitResolution /\ [][NextResolution]_vars

\* C13: the instances map has one entry per constructor at most, and a
\* resolve of a Singleton token whose constructor was already instantiated
\* through another Singleton token returns that same instance without
\* calling the constructor.
CacheKeyedByConstructor ==
  [][/\ \A i, j \in 1..Len(instances') :
          instances'[i].key = instances'[j].key => i = j
     /\ last'.op = "resolve"
          => \A other \in Tokens \ {last'.token} :
               (/\ Registered(last'.token)
                /\ Registered(other)
                /\ TypeOf(last'.token) = "Singleton"
                /\ TypeOf(other) = "Singleton"
                /\ ConstructorOf(other) = ConstructorOf(last'.token)
                /\ firstResolved[other] # NullV)
               => /\ last'.invoked = <<>>
                  /\ nextId' = nextId
                  /\ last'.outcome = Return(firstResolved[other])]_vars

\* two Singleton tokens of one constructor were resolved and one object was
\* built for both
AliasResolved ==
  /\ last.op = "resolve"
  /\ last.invoked = <<>>
  /\ nextId = 2
  /\ \E other \in Tokens \ {last.token} :
       /\ Registered(other)
       /\ Registered(last.token)
       /\ ConstructorOf(other) = ConstructorOf(last.token)
       /\ firstResolved[other] # NullV
       /\ firstResolved[other] = firstResolved[last.token]

(***************************************************************************)
(* Inject: the getter the decorator defines on the property.  self is the  *)
(* object whose property is read, result is what the callback of its scope *)
(* does when it is called, created what the constructor does.              *)
(***************************************************************************)
\* the getter with a fall through to resolve only when self has no scope
getMissOnly(scps, impls, insts, self, dependency, result, created) ==
  LET scoped == resolveScope(scps, self, dependency, result)
      global == resolve(impls, insts, dependency, created)
  IN IF MapHas(scps, self)
     THEN [outcome |-> scoped.outcome, instances |-> insts,
           invoked |-> scoped.invoked, resolveCalled |-> FALSE]
     ELSE [outcome |-> global.outcome, instances |-> global.instances,
           invoked |-> scoped.invoked \o global.invoked, resolveCalled |-> TRUE]

get(scps, impls, insts, self, dependency, result, created) ==
  LET scoped == resolveScope(scps, self, dependency, result)
      global == resolve(impls, insts, dependency, created)
  IN IF scoped.outcome.kind = "throw"
        \/ scoped.outcome.value \notin {NullV, UndefinedV}
     THEN [outcome |-> scoped.outcome, instances |-> insts,
           invoked |-> scoped.invoked, resolveCalled |-> FALSE]
     ELSE [outcome |-> global.outcome, instances |-> global.instances,
           invoked |-> scoped.invoked \o global.invoked, resolveCalled |-> TRUE]

Get ==
  /\ calls < MaxCalls
  /\ \E self \in Handles, dependency \in Tokens, result \in CallbackOutcomes,
        created \in {Return(ObjV(nextId))} \cup {Throw(e) : e \in Thrown} :
       LET r == get(scopes, implementations, instances, self, dependency,
                    result, created)
           built == \E i \in 1..Len(r.invoked) :
                      /\ r.invoked[i].fn \in Constructors
                      /\ r.invoked[i].result.kind = "return"
       IN /\ instances' = r.instances
          /\ nextId' = IF built THEN nextId + 1 ELSE nextId
          /\ last' = [NoCall EXCEPT !.op = "get", !.instance = self,
                                    !.token = dependency, !.outcome = r.outcome,
                                    !.invoked = r.invoked,
                                    !.resolveCalled = r.resolveCalled]
          /\ resolved' = IF r.resolveCalled /\ r.outcome.kind = "return"
                         THEN resolved \cup {r.outcome.value} ELSE resolved
          /\ firstResolved' =
               IF r.resolveCalled /\ r.outcome.kind = "return"
                  /\ firstResolved[dependency] = NullV
               THEN [firstResolved EXCEPT ![dependency] = r.outcome.value]
               ELSE firstResolved
  /\ calls' = calls + 1
  /\ UNCHANGED <<implementations, scopes, dependencyReferences, scopeOwner>>

NextInject ==
  \/ Register
  \/ RegisterScope
  \/ Get

SpecInject == Init /\ [][NextInject]_vars

\* C15: a read of an injected property calls the callback of the reading
\* instance when it has one, and then the result of the callback is the
\* value of the read and resolve is not called; resolve is called only when
\* the instance has no entry in the scope table.
InjectLookupOrder ==
  last.op = "get"
    => IF MapHas(scopes, last.instance)
       THEN /\ ~last.resolveCalled
            /\ Len(last.invoked) = 1
            /\ last.outcome = last.invoked[1].result
       ELSE last.resolveCalled

\* C15, as the getter does it: the callback of the reading instance is
\* called first when it has one; when the callback throws or returns a
\* value other than null or undefined, that is the outcome of the read and
\* resolve is not called; when the instance has no entry or its callback
\* returns null or undefined, the outcome of the read is the outcome of
\* resolve(token).
InjectLookupOrderNullish ==
  [][last'.op = "get"
     => /\ (MapHas(scopes, last'.instance)
              => /\ Len(last'.invoked) >= 1
                 /\ last'.invoked[1].fn = MapGet(scopes, last'.instance).name
                 /\ last'.invoked[1].arg = last'.token)
        /\ IF /\ MapHas(scopes, last'.instance)
              /\ \/ last'.invoked[1].result.kind = "throw"
                 \/ last'.invoked[1].result.value \notin {NullV, UndefinedV}
           THEN /\ ~last'.resolveCalled
                /\ Len(last'.invoked) = 1
                /\ last'.outcome = last'.invoked[1].result
                /\ instances' = instances
           ELSE /\ last'.resolveCalled
                /\ \E created \in {Return(ObjV(nextId))} \cup {Throw(e) : e \in Thrown} :
                     LET r == resolve(implementations, instances, last'.token, created)
                     IN /\ last'.outcome = r.outcome
                        /\ instances' = r.instances]_vars

\* an instance with a scope read a property, its callback returned null and
\* the value came from resolve
ScopedReadFellThrough ==
  /\ last.op = "get"
  /\ MapHas(scopes, last.instance)
  /\ last.resolveCalled
  /\ last.outcome.kind = "return"
  /\ last.outcome.value.t = "obj"

(***************************************************************************)
(* Request handlers with a scope manager: handleRequest of the example and *)
(* handle of the README.  A request is a record of the handler's local map *)
(* scopedDependencies and of what the container holds while it runs.       *)
(***************************************************************************)
Constructions == {"returns", "throws"}

\* what a `new` does during a request
Construct(construction, id) ==
  IF construction = "returns" THEN Return(ObjV(id))
  ELSE Throw(ErrorV("Error", <<"boom">>))

NewRequest(insts, scps, id) ==
  [scopedDependencies |-> <<>>, instances |-> insts, scopes |-> scps,
   nextId |-> id, outcome |-> Return(UndefinedV), registered |-> <<>>]

\* resolve of handleRequest: the scope is registered under the key
handleRequestResolve(rq, impls, key, construction) ==
  IF MapHas(rq.scopedDependencies, key)
  THEN [rq EXCEPT !.outcome = Return(MapGet(rq.scopedDependencies, key))]
  ELSE LET r == resolve(impls, rq.instances, key, Construct(construction, rq.nextId))
           resolvedDependency == r.outcome.value
           built == r.invoked # <<>> /\ r.outcome.kind = "return"
       IN IF r.outcome.kind = "throw"
          THEN [rq EXCEPT !.outcome = r.outcome]
          ELSE IF getInjectionType(impls, key) = Return(StrV("Scoped"))
          THEN [rq EXCEPT
                  !.outcome = r.outcome,
                  !.instances = r.instances,
                  !.nextId = IF built THEN rq.nextId + 1 ELSE rq.nextId,
                  !.scopedDependencies = MapSet(rq.scopedDependencies, key,
                                                resolvedDependency),
                  !.scopes = registerScope(rq.scopes, StrV(key), FnV("resolve")),
                  !.registered = Append(rq.registered, StrV(key))]
          ELSE [rq EXCEPT
                  !.outcome = r.outcome,
                  !.instances = r.instances,
                  !.nextId = IF built THEN rq.nextId + 1 ELSE rq.nextId]

\* event.locals.resolve of the README: the scope is registered under the
\* resolved instance
localsResolve(rq, impls, dependency, construction) ==
  IF MapHas(rq.scopedDependencies, dependency)
  THEN [rq EXCEPT !.outcome = Return(MapGet(rq.scopedDependencies, dependency))]
  ELSE LET r == resolve(impls, rq.instances, dependency,
                        Construct(construction, rq.nextId))
           resolvedDependency == r.outcome.value
           built == r.invoked # <<>> /\ r.outcome.kind = "return"
       IN IF r.outcome.kind = "throw"
          THEN [rq EXCEPT !.outcome = r.outcome]
          ELSE IF getInjectionType(impls, dependency) = Return(StrV("Scoped"))
          THEN [rq EXCEPT
                  !.outcome = r.outcome,
                  !.instances = r.instances,
                  !.nextId = IF built THEN rq.nextId + 1 ELSE rq.nextId,
                  !.scopedDependencies = MapSet(rq.scopedDependencies, dependency,
                                                resolvedDependency),
                  !.scopes = registerScope(rq.scopes, resolvedDependency,
                                           FnV("resolve")),
                  !.registered = Append(rq.registered, resolvedDependency)]
          ELSE [rq EXCEPT
                  !.outcome = r.outcome,
                  !.instances = r.instances,
                  !.nextId = IF built THEN rq.nextId + 1 ELSE rq.nextId]

MapValues(m) == [i \in 1..Len(m) |-> m[i].value]

KeysOf(m) == [i \in 1..Len(m) |-> StrV(m[i].key)]

\* handleRequest: resolve(key), a read of an injected property of the
\* resolved object by its method, cleanScope of the values of
\* scopedDependencies.  A throw leaves the handler before cleanScope.
HandleRequest ==
  /\ calls < MaxCalls
  /\ \E key \in Tokens, dependency \in Tokens, construction \in Constructions :
       LET rq == handleRequestResolve(NewRequest(instances, scopes, nextId),
                                      implementations, key, construction)
           userContainer == rq.outcome.value
           read == get(rq.scopes, implementations, rq.instances, userContainer,
                       dependency, Return(NullV), Construct(construction, rq.nextId))
           built == \E i \in 1..Len(read.invoked) :
                      /\ read.invoked[i].fn \in Constructors
                      /\ read.invoked[i].result.kind = "return"
           list == MapValues(rq.scopedDependencies)
           cleaned == cleanScope(rq.scopes, list)
       IN IF rq.outcome.kind = "throw"
          THEN /\ instances' = rq.instances
               /\ scopes' = rq.scopes
               /\ nextId' = rq.nextId
               /\ last' = [NoCall EXCEPT !.op = "handleRequest", !.token = key,
                                         !.outcome = rq.outcome,
                                         !.registered = rq.registered]
          ELSE IF read.outcome.kind = "throw"
          THEN /\ instances' = read.instances
               /\ scopes' = rq.scopes
               /\ nextId' = rq.nextId
               /\ last' = [NoCall EXCEPT !.op = "handleRequest", !.token = key,
                                         !.outcome = read.outcome,
                                         !.registered = rq.registered,
                                         !.invoked = read.invoked,
                                         !.resolveCalled = read.resolveCalled]
          ELSE /\ instances' = read.instances
               /\ scopes' = cleaned.scopes
               /\ nextId' = IF built THEN rq.nextId + 1 ELSE rq.nextId
               /\ last' = [NoCall EXCEPT !.op = "handleRequest", !.token = key,
                                         !.outcome = cleaned.outcome,
                                         !.registered = rq.registered,
                                         !.invoked = read.invoked,
                                         !.resolveCalled = read.resolveCalled,
                                         !.scopeList = list,
                                         !.deleted = cleaned.deleted]
  /\ calls' = calls + 1
  /\ UNCHANGED <<implementations, dependencyReferences, firstResolved, resolved,
                 scopeOwner>>

\* the dependencies the code behind resolve(event) asks event.locals.resolve
\* for, in order
KeyLists == {<<a>> : a \in Tokens} \cup {<<a, b>> : a, b \in Tokens}

RECURSIVE resolveEvent(_, _, _, _)
resolveEvent(rq, impls, keys, construction) ==
  IF keys = <<>> \/ rq.outcome.kind = "throw" THEN rq
  ELSE resolveEvent(localsResolve(rq, impls, Head(keys), construction),
                    impls, Tail(keys), construction)

\* handle of the README: resolve(event), cleanScope of the keys of
\* scopedDependencies.  A throw leaves the handler before cleanScope.
Handle ==
  /\ calls < MaxCalls
  /\ \E keys \in KeyLists, construction \in Constructions :
       LET rq == resolveEvent(NewRequest(instances, scopes, nextId),
                              implementations, keys, construction)
           list == KeysOf(rq.scopedDependencies)
           cleaned == cleanScope(rq.scopes, list)
       IN /\ instances' = rq.instances
          /\ nextId' = rq.nextId
          /\ IF rq.outcome.kind = "throw"
             THEN /\ scopes' = rq.scopes
                  /\ last' = [NoCall EXCEPT !.op = "handle", !.token = keys[1],
                                            !.outcome = rq.outcome,
                                            !.registered = rq.registered]
             ELSE /\ scopes' = cleaned.scopes
                  /\ last' = [NoCall EXCEPT !.op = "handle", !.token = keys[1],
                                            !.outcome = Return(ExtV(3)),
                                            !.registered = rq.registered,
                                            !.scopeList = list,
                                            !.deleted = cleaned.deleted]
  /\ calls' = calls + 1
  /\ UNCHANGED <<implementations, dependencyReferences, firstResolved, resolved,
                 scopeOwner>>

NextRequests ==
  \/ Register
  \/ HandleRequest
  \/ Handle

SpecRequests == Init /\ [][NextRequests]_vars

\* C16: when a request handler of the scope-manager pattern has run its
\* cleanScope call and returned, the scope table has no entry that was
\* registered during that request.
ScopeDeletedAfterRequest ==
  (last.op \in {"handleRequest", "handle"} /\ last.outcome.kind = "return")
    => \A i \in 1..Len(last.registered) : ~MapHas(scopes, last.registered[i])

(***************************************************************************)
(* The class decorators Singleton, Transient and Scoped.  A decorated      *)
(* value is described by how it was declared: a class with the names of    *)
(* its members, a function, an arrow function, or a value that is no       *)
(* function.  id is the identity of the function object.                   *)
(***************************************************************************)
ClassV(name, id, members) ==
  [t |-> "function", declared |-> "class", name |-> name, id |-> id,
   members |-> members]

FunctionV(name, id) ==
  [t |-> "function", declared |-> "function", name |-> name, id |-> id,
   members |-> <<>>]

ArrowV(name, id) ==
  [t |-> "function", declared |-> "arrow", name |-> name, id |-> id,
   members |-> <<>>]

Decorated ==
  {ClassV(name, id, members) :
     name \in Tokens, id \in Constructors, members \in {<<>>, <<"method">>}}
    \cup {FunctionV(name, "X") : name \in Tokens}
    \cup {ArrowV(name, "X") : name \in Tokens}
    \cup {NullV, ObjV(0)}

\* value.prototype: a class and a function have one, whose constructor is
\* the value; an arrow function and an object have none
Prototype(value) ==
  IF value.t = "function" /\ value.declared \in {"class", "function"}
  THEN [constructor |-> value.id,
        ownPropertyNames |-> <<"constructor">> \o value.members]
  ELSE UndefinedV

isClass(value) ==
  IF value.t # "function" THEN FALSE
  ELSE IF Prototype(value) = UndefinedV THEN FALSE
  ELSE IF Prototype(value).constructor # value.id THEN FALSE
  ELSE Len(Prototype(value).ownPropertyNames) > 1

\* the throw of a decorator for a value that isClass refuses; the message
\* reads implementation.name
NotAClass(implementation) ==
  IF implementation \in {NullV, UndefinedV}
  THEN Throw(TypeError(<<"Cannot read properties of ", implementation.t,
                         " (reading 'name')">>))
  ELSE Throw(DependencyInjectionError(
         <<"Failed to register class definition for ",
           IF implementation.t = "function" THEN implementation.name ELSE "undefined",
           ". The implementation is not a class.">>))

Singleton(impls, implementation) ==
  IF ~isClass(implementation)
  THEN [outcome |-> NotAClass(implementation), implementations |-> impls]
  ELSE register(impls, implementation.name, "Singleton", implementation.id)

Transient(impls, implementation) ==
  IF ~isClass(implementation)
  THEN [outcome |-> NotAClass(implementation), implementations |-> impls]
  ELSE register(impls, implementation.name, "Transient", implementation.id)

Scoped(impls, implementation) ==
  IF ~isClass(implementation)
  THEN [outcome |-> NotAClass(implementation), implementations |-> impls]
  ELSE register(impls, implementation.name, "Scoped", implementation.id)

ApplySingleton ==
  /\ calls < MaxCalls
  /\ \E implementation \in Decorated :
       LET r == Singleton(implementations, implementation) IN
       /\ implementations' = r.implementations
       /\ last' = [NoCall EXCEPT !.op = "Singleton", !.injectionType = "Singleton",
                                 !.decorated = implementation,
                                 !.outcome = r.outcome]
  /\ calls' = calls + 1
  /\ UNCHANGED <<instances, scopes, dependencyReferences, nextId,
                 firstResolved, resolved, scopeOwner>>

ApplyTransient ==
  /\ calls < MaxCalls
  /\ \E implementation \in Decorated :
       LET r == Transient(implementations, implementation) IN
       /\ implementations' = r.implementations
       /\ last' = [NoCall EXCEPT !.op = "Transient", !.injectionType = "Transient",
                                 !.decorated = implementation,
                                 !.outcome = r.outcome]
  /\ calls' = calls + 1
  /\ UNCHANGED <<instances, scopes, dependencyReferences, nextId,
                 firstResolved, resolved, scopeOwner>>

ApplyScoped ==
  /\ calls < MaxCalls
  /\ \E implementation \in Decorated :
       LET r == Scoped(implementations, implementation) IN
       /\ implementations' = r.implementations
       /\ last' = [NoCall EXCEPT !.op = "Scoped", !.injectionType = "Scoped",
                                 !.decorated = implementation,
                                 !.outcome = r.outcome]
  /\ calls' = calls + 1
  /\ UNCHANGED <<instances, scopes, dependencyReferences, nextId,
                 firstResolved, resolved, scopeOwner>>

NextDecorators ==
  \/ ApplySingleton
  \/ ApplyTransient
  \/ ApplyScoped

SpecDecorators == Init /\ [][NextDecorators]_vars

\* C18: a class decorator applied to a class whose name is not registered
\* registers the class under its name with the injection type of the
\* decorator; applied to a value that is not a class, or to a class whose
\* name is registered, it throws a DependencyInjectionError and the registry
\* is as before.
DecoratorRegisters ==
  [][last'.op \in {"Singleton", "Transient", "Scoped"}
     => IF /\ last'.decorated.t = "function"
           /\ last'.decorated.declared = "class"
           /\ ~Registered(last'.decorated.name)
        THEN /\ last'.outcome.kind = "return"
             /\ implementations'
                  = Append(implementations,
                           [key |-> last'.decorated.name,
                            value |-> [injectionType |-> last'.injectionType,
                                       implementation |-> last'.decorated.id]])
        ELSE /\ last'.outcome.kind = "throw"
             /\ last'.outcome.value.name = "DependencyInjectionError"
             /\ implementations' = implementations]_vars

(***************************************************************************)
(* resolve with a constructor that calls resolve itself (directly or by    *)
(* reading an injected property) before it returns.  depth is the number   *)
(* of constructions that call resolve(inner) again; the construction       *)
(* below them returns at once.  trace lists the resolve calls in the order *)
(* in which they ended.                                                    *)
(***************************************************************************)
MaxDepth == 2

RECURSIVE resolveNested(_, _, _, _, _, _)
resolveNested(impls, insts, token, inner, id, depth) ==
  LET injection == MapGet(impls, token)
      nested == resolveNested(impls, insts, inner, inner, id, depth - 1)
      \* new injection.implementation()
      construct ==
        IF depth = 0
        THEN [outcome |-> Return(ObjV(id)), instances |-> insts,
              nextId |-> id + 1, trace |-> <<>>]
        ELSE IF nested.outcome.kind = "throw"
        THEN [outcome |-> nested.outcome, instances |-> nested.instances,
              nextId |-> nested.nextId, trace |-> nested.trace]
        ELSE [outcome |-> Return(ObjV(nested.nextId)),
              instances |-> nested.instances,
              nextId |-> nested.nextId + 1, trace |-> nested.trace]
      stored == MapSet(construct.instances, injection.implementation,
                       construct.outcome.value)
      Ended(outcome, instancesAfter, idAfter, before) ==
        [outcome |-> outcome, instances |-> instancesAfter, nextId |-> idAfter,
         trace |-> Append(before, [token |-> token, outcome |-> outcome])]
  IN IF injection = UndefinedV
     THEN Ended(ConstructorNotFound(token), insts, id, <<>>)
     ELSE IF injection.injectionType # "Singleton"
     THEN Ended(construct.outcome, construct.instances, construct.nextId,
                construct.trace)
     ELSE IF MapHas(insts, injection.implementation)
     THEN Ended(Return(MapGet(insts, injection.implementation)), insts, id, <<>>)
     ELSE IF construct.outcome.kind = "throw"
     THEN Ended(CreationFailed(token, construct.outcome.value),
                construct.instances, construct.nextId, construct.trace)
     ELSE Ended(Return(MapGet(stored, injection.implementation)), stored,
                construct.nextId, construct.trace)

ResolveNested ==
  /\ calls < MaxCalls
  /\ \E token \in Tokens, inner \in Tokens, depth \in 0..MaxDepth :
       LET r == resolveNested(implementations, instances, token, inner, nextId,
                              depth)
       IN /\ instances' = r.instances
          /\ nextId' = r.nextId
          /\ last' = [NoCall EXCEPT !.op = "resolve", !.token = token,
                                    !.outcome = r.outcome, !.trace = r.trace]
  /\ calls' = calls + 1
  /\ UNCHANGED <<implementations, scopes, dependencyReferences, firstResolved,
                 resolved, scopeOwner>>

NextReentrant ==
  \/ Register
  \/ ResolveNested

SpecReentrant == Init /\ [][NextReentrant]_vars

\* C19: an instance in the instances map is never removed or replaced, and
\* every resolve call of a Singleton token that returns, also one made from
\* inside a constructor while the instance of the same constructor is being
\* built, returns the instance the map holds for the constructor.
CachedSingletonNeverReplaced ==
  [][/\ \A i \in 1..Len(instances) :
          MapGet(instances', instances[i].key) = instances[i].value
     /\ last'.op = "resolve"
          => \A k \in 1..Len(last'.trace) :
               (/\ Registered(last'.trace[k].token)
                /\ TypeOf(last'.trace[k].token) = "Singleton"
                /\ last'.trace[k].outcome.kind = "return")
               => last'.trace[k].outcome.value
                    = MapGet(instances', ConstructorOf(last'.trace[k].token))]_vars

(***************************************************************************)
(* Properties of the registry and of the references as maps.               *)
(***************************************************************************)

\* C21: the implementations map has one entry per token at most, and the
\* entry of a registered token, its injection type and its constructor,
\* stays as it is through every call: it is never changed and never
\* removed.
RegistrationImmutable ==
  [][/\ \A i, j \in 1..Len(implementations') :
          implementations'[i].key = implementations'[j].key => i = j
     /\ \A token \in Tokens :
          Registered(token)
            => /\ MapHas(implementations', token)
               /\ MapGet(implementations', token) = MapGet(implementations, token)]_vars

\* a registered token was resolved and a second registration of it, with
\* another type, was refused
RegistrationKept ==
  /\ last.op = "register"
  /\ last.outcome.kind = "throw"
  /\ instances # <<>>
  /\ TypeOf(last.token) # last.injectionType

\* the errors of a result that name the token
ErrorsNaming(result, token) ==
  {i \in 1..Len(result.errors) : result.errors[i][3] = token}

\* C22: addDependencyReference returns and leaves one origin per token,
\* the one of the last call for the token, the origins of the other tokens
\* being as before; a result of testDependencyReferences has one error at
\* most for a token with a reference, made with the origin the map holds
\* for it, and none for a token without a reference.
ReferenceOverwrite ==
  [][/\ last'.op = "addDependencyReference"
          => /\ last'.outcome.kind = "return"
             /\ \A i, j \in 1..Len(dependencyReferences') :
                  dependencyReferences'[i].key = dependencyReferences'[j].key
                    => i = j
             /\ MapGet(dependencyReferences', last'.token) = last'.origin
             /\ \A token \in Tokens \ {last'.token} :
                  /\ MapHas(dependencyReferences', token)
                       = MapHas(dependencyReferences, token)
                  /\ MapGet(dependencyReferences', token)
                       = MapGet(dependencyReferences, token)
     /\ (last'.op = "testDependencyReferences" /\ last'.outcome.kind = "return")
          => /\ Len(last'.outcome.value.errors) <= Len(dependencyReferences)
             /\ \A token \in Tokens :
                  IF MapHas(dependencyReferences, token)
                  THEN /\ Cardinality(ErrorsNaming(last'.outcome.value, token)) <= 1
                       /\ \A i \in ErrorsNaming(last'.outcome.value, token) :
                            ConstructorName(MapGet(dependencyReferences, token))
                              = Return(StrV(last'.outcome.value.errors[i][1]))
                  ELSE ErrorsNaming(last'.outcome.value, token) = {}]_vars

\* a second origin was recorded for a token and took the place of the
\* first
ReferenceReplaced ==
  /\ last.op = "addDependencyReference"
  /\ last.repeated
  /\ Len(dependencyReferences) = 1
  /\ dependencyReferences[1].value = last.origin

\* C23: when handleRequest has resolved a Scoped dependency and registered
\* its scope, the read of an injected property by the resolved object calls
\* the resolve function of the scope manager, and not the resolve of the
\* container.
ScopedReadsThroughManager ==
  (last.op = "handleRequest" /\ last.registered # <<>>)
    => /\ ~last.resolveCalled
       /\ Len(last.invoked) >= 1
       /\ last.invoked[1].fn = "resolve"

(***************************************************************************)
(* resolve step by step, with the calls in progress on a stack.  A         *)
(* constructor, while it runs, may call resolve once (directly or by       *)
(* reading an injected property), for its own token or another, and then   *)
(* returns or throws.  The engine has room for MaxStack resolve calls in   *)
(* progress; a call beyond that throws a RangeError in the caller.         *)
(***************************************************************************)
MaxStack == 2

RangeError == ErrorV("RangeError", <<"Maximum call stack size exceeded">>)

\* a call of resolve(token) that has just been entered
Frame(token) ==
  [token |-> token, pc |-> "start", looked |-> FALSE, outcome |-> Return(UndefinedV)]

Top == last.stack[Len(last.stack)]

Ends(frame, outcome) == [frame EXCEPT !.pc = "done", !.outcome = outcome]

\* what resolve(token) does with an error thrown by the constructor: the
\* Singleton branch catches and wraps it, the other branch lets it through
Failed(token, error) ==
  IF TypeOf(token) = "Singleton" THEN CreationFailed(token, error) ELSE Throw(error)

\* resolve is called from outside, no call being in progress
Call ==
  /\ calls < MaxCalls
  /\ last.stack = <<>>
  /\ \E token \in Tokens :
       last' = [NoCall EXCEPT !.op = "resolve", !.token = token,
                              !.stack = <<Frame(token)>>]
  /\ calls' = calls + 1
  /\ UNCHANGED <<container, nextId, firstResolved, resolved, scopeOwner>>

\* register from outside, no call of resolve being in progress
RegisterIdle ==
  /\ last.stack = <<>>
  /\ Register

\* the top call gets its injection: not found, a cached Singleton, or a
\* constructor to run
Find ==
  /\ last.stack # <<>>
  /\ Top.pc = "start"
  /\ LET injection == MapGet(implementations, Top.token)
         top == IF injection = UndefinedV
                THEN Ends(Top, ConstructorNotFound(Top.token))
                ELSE IF /\ injection.injectionType = "Singleton"
                        /\ MapHas(instances, injection.implementation)
                THEN Ends(Top, Return(MapGet(instances, injection.implementation)))
                ELSE [Top EXCEPT !.pc = "new"]
     IN last' = [last EXCEPT !.stack[Len(last.stack)] = top]
  /\ UNCHANGED <<container, nextId, calls, firstResolved, resolved, scopeOwner>>

\* the constructor of the top call runs: it returns the new object, it
\* throws, or it calls resolve itself; with no room on the stack that call
\* throws a RangeError in the constructor, and the catch block of resolve,
\* which runs at the same depth, may wrap it or overflow again
RunConstructor ==
  /\ last.stack # <<>>
  /\ Top.pc = "new"
  /\ LET token == Top.token
         implementation == ConstructorOf(token)
         stored == MapSet(instances, implementation, ObjV(nextId))
     IN \/ /\ instances' = IF TypeOf(token) = "Singleton" THEN stored ELSE instances
           /\ nextId' = nextId + 1
           /\ last' = [last EXCEPT !.stack[Len(last.stack)] =
                         Ends(Top, IF TypeOf(token) = "Singleton"
                                   THEN Return(MapGet(stored, implementation))
                                   ELSE Return(ObjV(nextId)))]
        \/ /\ \E error \in Thrown :
                last' = [last EXCEPT !.stack[Len(last.stack)] =
                           Ends(Top, Failed(token, error))]
           /\ UNCHANGED <<instances, nextId>>
        \/ /\ ~Top.looked
           /\ Len(last.stack) < MaxStack
           /\ \E inner \in Tokens :
                last' = [last EXCEPT !.stack =
                           Append([last.stack EXCEPT ![Len(last.stack)].looked = TRUE],
                                  Frame(inner))]
           /\ UNCHANGED <<instances, nextId>>
        \/ /\ ~Top.looked
           /\ Len(last.stack) = MaxStack
           /\ \E outcome \in {Failed(token, RangeError), Throw(RangeError)} :
                last' = [last EXCEPT !.stack[Len(last.stack)] = Ends(Top, outcome)]
           /\ UNCHANGED <<instances, nextId>>
  /\ UNCHANGED <<implementations, scopes, dependencyReferences, calls,
                 firstResolved, resolved, scopeOwner>>

\* the end of the top call with a caller that calls again after an error
UnwindRetries ==
  /\ last.stack # <<>>
  /\ Top.pc = "done"
  /\ IF Len(last.stack) = 1
     THEN last' = [last EXCEPT !.stack = <<>>, !.outcome = Top.outcome]
     ELSE IF Top.outcome.kind = "return"
     THEN last' = [last EXCEPT !.stack = SubSeq(last.stack, 1, Len(last.stack) - 1)]
     ELSE last' = [last EXCEPT !.stack[Len(last.stack)] = Frame(Top.token)]
  /\ UNCHANGED <<container, nextId, calls, firstResolved, resolved, scopeOwner>>

\* the top call has ended: its outcome goes to the caller.  A constructor
\* that called it goes on with the returned instance; an error goes through
\* the constructor to the resolve call that runs it, or is caught by the
\* constructor, which goes on.
Unwind ==
  /\ last.stack # <<>>
  /\ Top.pc = "done"
  /\ IF Len(last.stack) = 1
     THEN last' = [last EXCEPT !.stack = <<>>, !.outcome = Top.outcome]
     ELSE LET caller == last.stack[Len(last.stack) - 1]
              below == SubSeq(last.stack, 1, Len(last.stack) - 2)
          IN IF Top.outcome.kind = "return"
             THEN last' = [last EXCEPT !.stack = Append(below, caller)]
             ELSE \E goesOn \in BOOLEAN :
                    last' = [last EXCEPT !.stack =
                               Append(below,
                                      IF goesOn THEN caller
                                      ELSE Ends(caller,
                                                Failed(caller.token,
                                                       Top.outcome.value)))]
  /\ UNCHANGED <<container, nextId, calls, firstResolved, resolved, scopeOwner>>

NextStack ==
  \/ RegisterIdle
  \/ Call
  \/ Find
  \/ RunConstructor
  \/ Unwind

SpecStack == Init /\ [][NextStack]_vars

\* a call in progress always takes its next step: resolve is synchronous
\* code on one thread
SpecStackFair == SpecStack /\ WF_vars(Find \/ RunConstructor \/ Unwind)

\* C24: every call of resolve ends, with an instance or with an error, also
\* when constructors call resolve for other tokens or for their own.
ResolveEnds ==
  /\ (last.stack # <<>>) ~> (last.stack = <<>>)
  /\ []((last.op = "resolve" /\ last.stack = <<>>)
          => \/ last.outcome.kind = "throw"
             \/ last.outcome.value.t = "obj")

\* a Singleton whose constructor resolves its own token was resolved and the
\* call ended with the error of the full stack
SelfLookupEnded ==
  /\ last.op = "resolve"
  /\ last.stack = <<>>
  /\ last.outcome.kind = "throw"
  /\ last.outcome.value.t = "error"
  /\ last.outcome.value.name = "DependencyInjectionError"
  /\ last.outcome.value.message[Len(last.outcome.value.message)]
       = "Maximum call stack size exceeded"

====
